---- MODULE Spec2Model ----
(***************************************************************************)
(* Model of dotenvironment: DotEnvironment (_main.py) and _VariableConfig  *)
(* (_variable_config.py).                                                  *)
(*                                                                         *)
(* Python strings are sequences of one-character strings, so that          *)
(* f'{prefix}{name}' is \o and str.upper() is a map over the characters.   *)
(* A Python value is a record [ty, i, s]: its type, its integer payload    *)
(* and its text payload.  The state is one DotEnvironment instance, the    *)
(* process environment os.environ, and the outcome of the last call.       *)
(* _VariableConfig's attributes _name, _prefix and _default are written    *)
(* once and never read after construction; the model keeps the attributes  *)
(* that are read later (_variable_name, _cast, value, _default_used).      *)
(***************************************************************************)
EXTENDS Integers, Sequences, FiniteSets, TLC

VARIABLES constructed, prefix, stored_variables, environ, last

vars == <<constructed, prefix, stored_variables, environ, last>>

\* Longest raw environment text.
MaxRawLen == 1

-----------------------------------------------------------------------------
\* Python values

IntV(n) == [ty |-> "int", i |-> n, s |-> <<>>]
StrV(t) == [ty |-> "str", i |-> 0, s |-> t]
BoolV(b) == [ty |-> "bool", i |-> IF b THEN 1 ELSE 0, s |-> <<>>]
NoneV == [ty |-> "NoneType", i |-> 0, s |-> <<>>]
\* KeyError(f'La variable {key!r} no está definida en este entorno.')
KeyErrorV(key) == [ty |-> "KeyError", i |-> 0, s |-> key]

\* str.upper() on one character of the alphabet used here
UpperChar(c) ==
    CASE c = "a" -> "A"
      [] c = "x" -> "X"
      [] OTHER -> c

\* str.upper()
upper(str) == [i \in 1..Len(str) |-> UpperChar(str[i])]

-----------------------------------------------------------------------------
\* Inputs

Prefixes == {<<>>, <<"A", "_">>, <<"a", "_">>}

Names == {<<"X">>, <<"A", "_", "X">>, <<"x">>}

\* Keys asked of __getitem__ / __contains__
Keys == {<<"X">>, <<"A", "_", "X">>, <<"A", "_", "A", "_", "X">>, <<"Z">>}

\* Names of the environment variables the host process may set
EnvKeys == {<<"A", "_", "X">>, <<"A", "_", "A", "_", "X">>}

Digits(n) == [i \in 1..n |-> "5"]

\* Raw environment texts: "" (set but empty, no number), "5", ...
Raws == {Digits(n) : n \in 0..MaxRawLen}

\* The builtins int and str passed as cast (docstring, _main.py 78-79)
Casts == {"int", "str"}

Ellipsis == [kind |-> "ellipsis", v |-> NoneV, raises |-> FALSE]
Plain(v) == [kind |-> "plain", v |-> v, raises |-> FALSE]
Producer(v) == [kind |-> "callable", v |-> v, raises |-> FALSE]
RaisingProducer == [kind |-> "callable", v |-> NoneV, raises |-> TRUE]
NoDefault == [kind |-> "none", v |-> NoneV, raises |-> FALSE]

Defaults ==
    {Ellipsis, Plain(NoneV), Plain(IntV(7)), Producer(IntV(7)), RaisingProducer}

-----------------------------------------------------------------------------
\* The cast functions

IsDigit(c) == c \in {"0", "1", "2", "3", "4", "5", "6", "7", "8", "9"}

DigitVal(c) ==
    CASE c = "0" -> 0 [] c = "1" -> 1 [] c = "2" -> 2 [] c = "3" -> 3
      [] c = "4" -> 4 [] c = "5" -> 5 [] c = "6" -> 6 [] c = "7" -> 7
      [] c = "8" -> 8 [] c = "9" -> 9

RECURSIVE ParseInt(_)
ParseInt(str) ==
    IF str = <<>> THEN 0
    ELSE 10 * ParseInt(SubSeq(str, 1, Len(str) - 1)) + DigitVal(str[Len(str)])

\* The type a cast returns
ReturnType(cast) ==
    CASE cast = "int" -> "int"
      [] cast = "str" -> "str"

\* cast(variable_value): int raises ValueError on text that is no number
CallCast(cast, variable_value) ==
    IF cast = "int"
    THEN IF variable_value # <<>> /\ \A i \in 1..Len(variable_value) : IsDigit(variable_value[i])
         THEN [raised |-> FALSE, exc |-> "", value |-> IntV(ParseInt(variable_value))]
         ELSE [raised |-> TRUE, exc |-> "ValueError", value |-> NoneV]
    ELSE [raised |-> FALSE, exc |-> "", value |-> StrV(variable_value)]

-----------------------------------------------------------------------------
\* dict: a function from its keys (the order of insertion, which only the
\* rendering of repr shows, is left out)

EmptyDict == [k \in {} |-> NoneV]

dict_has(d, key) == key \in DOMAIN d

dict_get(d, key) == d[key]

dict_set(d, key, var) == [k \in DOMAIN d \cup {key} |-> IF k = key THEN var ELSE d[k]]

\* os.environ.get(name) is not None
environ_has(name) == name \in DOMAIN environ

-----------------------------------------------------------------------------
\* _VariableConfig

\* TRUE when _validate_name raises VariableNameMustBeUpperCaseError
validate_name(name) == name # upper(name)

\* A cast_value that forgets the cast and keeps the raw text
cast_value_raw(cast, variable_value) ==
    [raised |-> FALSE, exc |-> "", value |-> StrV(variable_value)]

cast_value(cast, variable_value) == CallCast(cast, variable_value)

get_default_var(variable_name, default) ==
    IF default.kind = "ellipsis"
    THEN [raised |-> TRUE, exc |-> "EnvironmentVariableNotDefined",
          exc_arg |-> variable_name, value |-> NoneV, default_used |-> FALSE,
          default_calls |-> 0]
    ELSE IF default.kind = "callable"
    THEN IF default.raises
         THEN [raised |-> TRUE, exc |-> "ProducerError", exc_arg |-> <<>>,
               value |-> NoneV, default_used |-> FALSE, default_calls |-> 1]
         ELSE [raised |-> FALSE, exc |-> "", exc_arg |-> <<>>,
               value |-> default.v, default_used |-> TRUE, default_calls |-> 1]
    ELSE [raised |-> FALSE, exc |-> "", exc_arg |-> <<>>,
          value |-> default.v, default_used |-> TRUE, default_calls |-> 0]

\* A _load that tests the truth of the text ("if not environment_value"), so
\* that a variable set to "" counts as absent
load_empty_as_absent(variable_name, cast, default) ==
    IF ~environ_has(variable_name) \/ environ[variable_name] = <<>>
    THEN LET d == get_default_var(variable_name, default)
         IN  [raised |-> d.raised, exc |-> d.exc, exc_arg |-> d.exc_arg,
              value |-> d.value, default_used |-> d.default_used,
              cast_calls |-> 0, default_calls |-> d.default_calls, env_reads |-> 1]
    ELSE LET c == cast_value(cast, environ[variable_name])
         IN  [raised |-> c.raised, exc |-> c.exc, exc_arg |-> <<>>,
              value |-> c.value, default_used |-> FALSE,
              cast_calls |-> 1, default_calls |-> 0, env_reads |-> 1]

\* A _load that computes the default before it looks at the environment
load_eager_default(variable_name, cast, default) ==
    LET d == get_default_var(variable_name, default)
    IN  IF ~environ_has(variable_name)
        THEN [raised |-> d.raised, exc |-> d.exc, exc_arg |-> d.exc_arg,
              value |-> d.value, default_used |-> d.default_used,
              cast_calls |-> 0, default_calls |-> d.default_calls, env_reads |-> 1]
        ELSE LET c == cast_value(cast, environ[variable_name])
             IN  [raised |-> c.raised, exc |-> c.exc, exc_arg |-> <<>>,
                  value |-> c.value, default_used |-> FALSE,
                  cast_calls |-> 1, default_calls |-> d.default_calls, env_reads |-> 1]

load(variable_name, cast, default) ==
    IF ~environ_has(variable_name)
    THEN LET d == get_default_var(variable_name, default)
         IN  [raised |-> d.raised, exc |-> d.exc, exc_arg |-> d.exc_arg,
              value |-> d.value, default_used |-> d.default_used,
              cast_calls |-> 0, default_calls |-> d.default_calls, env_reads |-> 1]
    ELSE LET c == cast_value(cast, environ[variable_name])
         IN  [raised |-> c.raised, exc |-> c.exc, exc_arg |-> <<>>,
              value |-> c.value, default_used |-> FALSE,
              cast_calls |-> 1, default_calls |-> 0, env_reads |-> 1]

\* A constructor that loads the variable before it validates the name
VariableConfig_load_first(pfx, name, cast, default) ==
    LET l == load(pfx \o name, cast, default)
    IN  IF l.raised THEN l
        ELSE IF validate_name(name)
        THEN [l EXCEPT !.raised = TRUE, !.exc = "VariableNameMustBeUpperCaseError",
                       !.value = NoneV, !.default_used = FALSE]
        ELSE l

\* _VariableConfig(prefix, name, cast, default)
VariableConfig(pfx, name, cast, default) ==
    IF validate_name(name)
    THEN [raised |-> TRUE, exc |-> "VariableNameMustBeUpperCaseError", exc_arg |-> <<>>,
          value |-> NoneV, default_used |-> FALSE,
          cast_calls |-> 0, default_calls |-> 0, env_reads |-> 0]
    ELSE load(pfx \o name, cast, default)

-----------------------------------------------------------------------------
\* The outcome of a call

Returned(op, arg, cast, default, ret, cc, dc, er) ==
    [op |-> op, arg |-> arg, cast |-> cast, default |-> default,
     status |-> "returned", exc |-> "", exc_arg |-> <<>>, ret |-> ret,
     summary |-> {}, cast_calls |-> cc, default_calls |-> dc, env_reads |-> er]

Raised(op, arg, cast, default, exc, exc_arg, cc, dc, er) ==
    [op |-> op, arg |-> arg, cast |-> cast, default |-> default,
     status |-> "raised", exc |-> exc, exc_arg |-> exc_arg, ret |-> NoneV,
     summary |-> {}, cast_calls |-> cc, default_calls |-> dc, env_reads |-> er]

-----------------------------------------------------------------------------
\* DotEnvironment

\* A _validate_prefix written with str.isupper(), which is False for ''
validate_prefix_isupper(pfx) == pfx = <<>> \/ pfx # upper(pfx)

\* TRUE when _validate_prefix raises PrefixMustBeUpperCaseError
validate_prefix(pfx) == pfx # upper(pfx)

Init ==
    /\ constructed = FALSE
    /\ prefix = <<>>
    /\ stored_variables = EmptyDict
    /\ environ = EmptyDict
    /\ last = Returned("start", <<>>, "", NoDefault, NoneV, 0, 0, 0)

\* DotEnvironment(prefix)
Construct(pfx) ==
    /\ ~constructed
    /\ IF validate_prefix(pfx)
       THEN /\ last' = Raised("construct", pfx, "", NoDefault,
                              "PrefixMustBeUpperCaseError", <<>>, 0, 0, 0)
            /\ UNCHANGED <<constructed, prefix, stored_variables>>
       ELSE /\ constructed' = TRUE
            /\ prefix' = pfx
            /\ stored_variables' = EmptyDict
            /\ last' = Returned("construct", pfx, "", NoDefault, NoneV, 0, 0, 0)
    /\ UNCHANGED environ

\* A variable() that reserves the key before it builds the _VariableConfig
Variable_store_first(name, cast, default) ==
    /\ constructed
    /\ LET variable == VariableConfig(prefix, name, cast, default)
       IN  /\ stored_variables' =
                  dict_set(stored_variables, prefix \o name,
                           [variable_name |-> prefix \o name, cast |-> cast,
                            value |-> variable.value,
                            default_used |-> variable.default_used])
           /\ last' = IF variable.raised
                      THEN Raised("variable", name, cast, default, variable.exc,
                                  variable.exc_arg, variable.cast_calls,
                                  variable.default_calls, variable.env_reads)
                      ELSE Returned("variable", name, cast, default, variable.value,
                                    variable.cast_calls, variable.default_calls,
                                    variable.env_reads)
    /\ UNCHANGED <<constructed, prefix, environ>>

\* env.variable(name, cast, default)
Variable(name, cast, default) ==
    /\ constructed
    /\ LET variable == VariableConfig(prefix, name, cast, default)
       IN  IF variable.raised
           THEN /\ last' = Raised("variable", name, cast, default, variable.exc,
                                  variable.exc_arg, variable.cast_calls,
                                  variable.default_calls, variable.env_reads)
                /\ UNCHANGED stored_variables
           ELSE /\ stored_variables' =
                       dict_set(stored_variables, prefix \o name,
                                [variable_name |-> prefix \o name, cast |-> cast,
                                 value |-> variable.value,
                                 default_used |-> variable.default_used])
                /\ last' = Returned("variable", name, cast, default, variable.value,
                                    variable.cast_calls, variable.default_calls,
                                    variable.env_reads)
    /\ UNCHANGED <<constructed, prefix, environ>>

\* What __getitem__ hands back for key, with stored variables d and prefix pfx
getitem(d, pfx, key) ==
    IF dict_has(d, key)
    THEN dict_get(d, key).value
    ELSE IF dict_has(d, pfx \o key)
    THEN dict_get(d, pfx \o key).value
    ELSE KeyErrorV(key)

\* A __getitem__ that reads the environment again for the entry it finds
GetItem_refresh(key) ==
    /\ constructed
    /\ last' = Returned("getitem", key, "", NoDefault,
                         getitem(stored_variables, prefix, key), 0, 0, 0)
    /\ stored_variables' =
           [k \in DOMAIN stored_variables |->
               IF k = key /\ environ_has(k) /\ ~CallCast(stored_variables[k].cast, environ[k]).raised
               THEN [stored_variables[k] EXCEPT
                        !.value = CallCast(stored_variables[k].cast, environ[k]).value,
                        !.default_used = FALSE]
               ELSE stored_variables[k]]
    /\ UNCHANGED <<constructed, prefix, environ>>

\* env[key]
GetItem(key) ==
    /\ constructed
    /\ last' = Returned("getitem", key, "", NoDefault,
                         getitem(stored_variables, prefix, key), 0, 0, 0)
    /\ UNCHANGED <<constructed, prefix, stored_variables, environ>>

\* What __contains__ answers for key, with stored variables d and prefix pfx
contains(d, pfx, key) ==
    LET key_exists == dict_has(d, key)
        prefixed_exists == dict_has(d, pfx \o key)
    IN  key_exists \/ prefixed_exists

\* key in env
Contains(key) ==
    /\ constructed
    /\ last' = Returned("contains", key, "", NoDefault, BoolV(contains(stored_variables, prefix, key)), 0, 0, 0)
    /\ UNCHANGED <<constructed, prefix, stored_variables, environ>>

\* _VariableConfig.__repr__
var_repr(var) ==
    [var_name |-> var.variable_name, value_type |-> var.value.ty,
     var_value |-> var.value, is_default |-> var.default_used]

\* repr(env)
Repr ==
    /\ constructed
    /\ last' = [Returned("repr", <<>>, "", NoDefault, NoneV, 0, 0, 0)
                  EXCEPT !.summary = {var_repr(stored_variables[k]) :
                                          k \in DOMAIN stored_variables}]
    /\ UNCHANGED <<constructed, prefix, stored_variables, environ>>

-----------------------------------------------------------------------------
\* The host process changes os.environ

SetEnv(key, raw) ==
    /\ environ' = [k \in DOMAIN environ \cup {key} |-> IF k = key THEN raw ELSE environ[k]]
    /\ last' = Returned("setenv", key, "", NoDefault, NoneV, 0, 0, 0)
    /\ UNCHANGED <<constructed, prefix, stored_variables>>

DelEnv(key) ==
    /\ key \in DOMAIN environ
    /\ environ' = [k \in DOMAIN environ \ {key} |-> environ[k]]
    /\ last' = Returned("delenv", key, "", NoDefault, NoneV, 0, 0, 0)
    /\ UNCHANGED <<constructed, prefix, stored_variables>>

-----------------------------------------------------------------------------

Next ==
    \/ \E pfx \in Prefixes : Construct(pfx)
    \/ \E name \in Names, cast \in Casts, default \in Defaults : Variable(name, cast, default)
    \/ \E key \in Keys : GetItem(key)
    \/ \E key \in Keys : Contains(key)
    \/ Repr
    \/ \E key \in EnvKeys, raw \in Raws : SetEnv(key, raw)
    \/ \E key \in EnvKeys : DelEnv(key)

Spec == Init /\ [][Next]_vars

-----------------------------------------------------------------------------
\* Properties

\* The qualified name of the last call's argument
LastQualified == prefix \o last.arg

LastDeclared == last.op = "variable" /\ last.status = "returned"

\* C1: a lookup of a key that is declared neither as it is nor with the
\* prefix raises the undeclared-variable error (KeyError) to the caller
\* instead of handing a value back.
C1_UndeclaredLookupRaises ==
    (/\ last.op = "getitem"
     /\ ~dict_has(stored_variables, last.arg)
     /\ ~dict_has(stored_variables, prefix \o last.arg))
    => (last.status = "raised" /\ last.exc = "KeyError")

\* C2: a declaration of an upper-case name resolves by precedence: with an
\* environment value r present it yields cast(r) (whatever the default is)
\* and stores default_used = FALSE; absent with the required marker it raises
\* EnvironmentVariableNotDefined naming prefix + name; absent with a plain
\* default (None included) it yields that default itself and stores
\* default_used = TRUE.  So default_used holds exactly when no environment
\* value was present.
C2_ResolutionPrecedence ==
    (last.op = "variable" /\ last.arg = upper(last.arg)) =>
        LET q == LastQualified
        IN  /\ q \in DOMAIN environ =>
                 LET c == CallCast(last.cast, environ[q])
                 IN  IF c.raised
                     THEN last.status = "raised" /\ last.exc = c.exc
                     ELSE /\ last.status = "returned"
                          /\ last.ret = c.value
                          /\ stored_variables[q].value = c.value
                          /\ stored_variables[q].default_used = FALSE
            /\ (q \notin DOMAIN environ /\ last.default = Ellipsis) =>
                 /\ last.status = "raised"
                 /\ last.exc = "EnvironmentVariableNotDefined"
                 /\ last.exc_arg = q
            /\ (q \notin DOMAIN environ /\ last.default.kind = "plain") =>
                 /\ last.status = "returned"
                 /\ last.ret = last.default.v
                 /\ stored_variables[q].value = last.default.v
                 /\ stored_variables[q].default_used = TRUE
            /\ last.status = "returned" =>
                 (stored_variables[q].default_used <=> q \notin DOMAIN environ)

\* The default is ignored: an environment value wins over a plain default.
C2_Witness ==
    /\ LastDeclared
    /\ LastQualified \in DOMAIN environ
    /\ last.default = Plain(IntV(7))
    /\ last.ret = IntV(5)
    /\ stored_variables[LastQualified].default_used = FALSE

\* C3: a default producer is called exactly once by a declaration (of a valid
\* name) that finds no environment value, its result becoming the stored
\* value with default_used = TRUE; it is not called when an environment
\* value is present, nor by any lookup, containment test or repr.
C3_ProducerCalledOnceWhenAbsent ==
    /\ (last.op = "variable" /\ last.arg = upper(last.arg) /\ last.default.kind = "callable") =>
          IF LastQualified \in DOMAIN environ
          THEN last.default_calls = 0
          ELSE /\ last.default_calls = 1
               /\ ~last.default.raises =>
                    /\ last.status = "returned"
                    /\ last.ret = last.default.v
                    /\ stored_variables[LastQualified].value = last.default.v
                    /\ stored_variables[LastQualified].default_used = TRUE
    /\ last.op \in {"getitem", "contains", "repr"} => last.default_calls = 0

C3_Witness ==
    /\ LastDeclared
    /\ last.default = Producer(IntV(7))
    /\ LastQualified \notin DOMAIN environ
    /\ last.default_calls = 1
    /\ last.ret = IntV(7)

\* C4: for every declared short name n, env[n] and env[prefix + n] are the
\* same value, the one stored by the latest declaration of n, and both
\* n and prefix + n are contained.
C4_ShortAndPrefixedAgree ==
    constructed =>
        \A n \in Names :
            dict_has(stored_variables, prefix \o n) =>
                /\ getitem(stored_variables, prefix, n)
                      = getitem(stored_variables, prefix, prefix \o n)
                /\ getitem(stored_variables, prefix, n) = stored_variables[prefix \o n].value
                /\ contains(stored_variables, prefix, n)
                /\ contains(stored_variables, prefix, prefix \o n)

\* C5: a declaration that fails (name, missing variable, cast, default
\* producer) leaves the stored variables as they were, so that every lookup
\* answers as before, and the failure the caller sees is the one raised.
C5_FailedDeclarationLeavesNoTrace ==
    [][(last'.op = "variable" /\ last'.status = "raised") =>
          /\ stored_variables' = stored_variables
          /\ \A key \in Keys :
                getitem(stored_variables', prefix', key) = getitem(stored_variables, prefix, key)
          /\ last'.exc \in {"VariableNameMustBeUpperCaseError", "EnvironmentVariableNotDefined",
                            "ValueError", "ProducerError"}
          /\ (last'.exc = "ValueError") =>
                /\ environ_has(prefix \o last'.arg)
                /\ CallCast(last'.cast, environ[prefix \o last'.arg]).exc = "ValueError"
          /\ (last'.exc = "ProducerError") => last'.default.raises
      ]_vars

\* A cast failure on the redeclaration of a name that is already stored.
C5_Witness ==
    /\ last.op = "variable"
    /\ last.status = "raised"
    /\ last.exc = "ValueError"
    /\ dict_has(stored_variables, LastQualified)

\* C6: when a name already declared is declared again with success, the entry
\* under prefix + name is the latest one, env[name] is the latest value, no
\* key is added and the other entries are unchanged.
C6_RedeclarationWins ==
    [][(/\ last'.op = "variable"
        /\ last'.status = "returned"
        /\ dict_has(stored_variables, prefix \o last'.arg)) =>
          /\ stored_variables'[prefix \o last'.arg].value = last'.ret
          /\ getitem(stored_variables', prefix', last'.arg) = last'.ret
          /\ DOMAIN stored_variables' = DOMAIN stored_variables
          /\ \A k \in DOMAIN stored_variables :
                k # prefix \o last'.arg => stored_variables'[k] = stored_variables[k]
      ]_vars

\* C7: a name that is not its own upper case is refused with
\* VariableNameMustBeUpperCaseError before anything else happens: no read of
\* the environment, no call of the cast or of a default producer; a name
\* that is its own upper case is never refused by the name check.
C7_NameCheckFirst ==
    last.op = "variable" =>
        IF last.arg # upper(last.arg)
        THEN /\ last.status = "raised"
             /\ last.exc = "VariableNameMustBeUpperCaseError"
             /\ last.env_reads = 0
             /\ last.cast_calls = 0
             /\ last.default_calls = 0
        ELSE last.exc # "VariableNameMustBeUpperCaseError"

\* A lower-case required name with nothing in the environment for it.
C7_Witness ==
    /\ last.op = "variable"
    /\ last.arg = <<"x">>
    /\ last.default = Ellipsis
    /\ last.status = "raised"
    /\ environ = EmptyDict

C8_ConstructOutcome ==
    last.op = "construct" =>
        IF last.arg # upper(last.arg)
        THEN /\ last.status = "raised"
             /\ last.exc = "PrefixMustBeUpperCaseError"
             /\ ~constructed
        ELSE /\ last.status = "returned"
             /\ constructed
             /\ prefix = last.arg
             /\ stored_variables = EmptyDict

\* C8: construction raises PrefixMustBeUpperCaseError exactly when the prefix
\* is not its own upper case; otherwise ('' included) it stores the prefix
\* with no stored variables, and the prefix never changes afterwards.
C8_PrefixValidatedAndFixed ==
    /\ []C8_ConstructOutcome
    /\ [][constructed => (constructed' /\ prefix' = prefix)]_vars

\* The empty prefix, accepted and still in place after a declaration.
C8_Witness ==
    /\ constructed
    /\ prefix = <<>>
    /\ LastDeclared

\* C9: a stored entry changes only by a successful declaration of its own
\* name; changes of the environment, lookups, containment tests, repr and
\* declarations of other names leave it alone, and no key is ever removed.
C9_EntriesFrozen ==
    [][\A k \in DOMAIN stored_variables :
          /\ k \in DOMAIN stored_variables'
          /\ stored_variables'[k] # stored_variables[k] =>
                /\ last'.op = "variable"
                /\ last'.status = "returned"
                /\ prefix \o last'.arg = k
      ]_vars

\* An entry taken from the environment, looked up after the environment
\* value was replaced.
C9_Witness ==
    /\ last.op = "getitem"
    /\ dict_has(stored_variables, last.arg)
    /\ ~stored_variables[last.arg].default_used
    /\ stored_variables[last.arg].cast = "str"
    /\ environ_has(last.arg)
    /\ environ[last.arg] # stored_variables[last.arg].value.s

\* C10 as stated: every stored value has the type its cast returns, on the
\* environment path and on the default path alike.
C10_EveryEntryHasCastType ==
    \A k \in DOMAIN stored_variables :
        stored_variables[k].value.ty = ReturnType(stored_variables[k].cast)

\* C10: a value taken from the environment has the type its cast returns; a
\* value taken from a default (plain or produced) is that default unchanged,
\* so it has the cast's type exactly when the default given has it.
C10_CastTypeOnEnvironmentPath ==
    /\ \A k \in DOMAIN stored_variables :
          ~stored_variables[k].default_used =>
              stored_variables[k].value.ty = ReturnType(stored_variables[k].cast)
    /\ (LastDeclared /\ stored_variables[LastQualified].default_used) =>
          /\ stored_variables[LastQualified].value = last.default.v
          /\ (stored_variables[LastQualified].value.ty = ReturnType(last.cast)
                <=> last.default.v.ty = ReturnType(last.cast))

C10_Witness ==
    /\ LastDeclared
    /\ last.cast = "int"
    /\ ~stored_variables[LastQualified].default_used
    /\ stored_variables[LastQualified].value = IntV(5)

====
